---- MODULE Spec2Model ----
(***************************************************************************)
(* System monitor: rule evaluation (main/rules.py), action dispatch        *)
(* (main/actions.py) and the monitor loop (main/main.py).                  *)
(*                                                                         *)
(* Text is modelled as sequences of one-character strings, so that         *)
(* str.split, float() and the substring test are computed, not assumed.    *)
(* Numbers are fixed-point integers in thousandths (97.5 is 97500).        *)
(***************************************************************************)
EXTENDS Integers, Sequences, FiniteSets, TLC

VARIABLES
    rules,          \* RulesEngine.rules: the rule store, in file order
    emailEnabled,   \* Actions.config["email"]["enabled"]
    fsFaults,       \* whether the file system of the history file can fail
    historyFile,    \* the alert history file on disk
    now,            \* the wall clock read by datetime.now()
    pc,             \* position of the monitor loop
    iteration,      \* monitor's iteration counter
    stats,          \* the snapshot of the current tick
    alerts,         \* the list rules.check returned in the current tick
    cursor,         \* how many of them "for alert in alerts" has dispatched
    lastAlert,      \* argument of the last Actions.execute call
    trace,          \* what the last Actions.execute call did, in order
    raised,         \* the exception that escaped the last call, or "none"
    appended,       \* every record handed to a successful history write
    tickLog         \* the calls of the current tick, in order

vars == <<rules, emailEnabled, fsFaults, historyFile, now, pc, iteration,
          stats, alerts, cursor, lastAlert, trace, raised, appended, tickLog>>

(***************************************************************************)
(* Bounds of the model.                                                    *)
(***************************************************************************)
\* Ticks of the monitor loop on a working file system.
MaxTicks == 2
\* Ticks of the monitor loop on a file system that can fail.
MaxFaultTicks == 1
\* Dispatches in a row onto one history file.
MaxAppends == 1050

(***************************************************************************)
(* Text.                                                                   *)
(***************************************************************************)
Whitespace == {" ", "\t"}
Digits == {"0", "1", "2", "3", "4", "5", "6", "7", "8", "9"}

DigitVal(c) ==
    CASE c = "0" -> 0 [] c = "1" -> 1 [] c = "2" -> 2 [] c = "3" -> 3
      [] c = "4" -> 4 [] c = "5" -> 5 [] c = "6" -> 6 [] c = "7" -> 7
      [] c = "8" -> 8 [] c = "9" -> 9

RECURSIVE DigitsVal(_)
DigitsVal(ds) ==
    IF ds = <<>> THEN 0
    ELSE DigitsVal(SubSeq(ds, 1, Len(ds) - 1)) * 10 + DigitVal(ds[Len(ds)])

\* str.split(): split on runs of whitespace, no empty tokens.
RECURSIVE SplitFrom(_, _, _)
SplitFrom(s, cur, acc) ==
    IF s = <<>> THEN (IF cur = <<>> THEN acc ELSE Append(acc, cur))
    ELSE IF Head(s) \in Whitespace
         THEN SplitFrom(Tail(s), <<>>, IF cur = <<>> THEN acc ELSE Append(acc, cur))
         ELSE SplitFrom(Tail(s), Append(cur, Head(s)), acc)

Split(s) == SplitFrom(s, <<>>, <<>>)

\* str.split('.'): split on every dot, empty segments kept.
RECURSIVE SplitDotFrom(_, _, _)
SplitDotFrom(s, cur, acc) ==
    IF s = <<>> THEN Append(acc, cur)
    ELSE IF Head(s) = "."
         THEN SplitDotFrom(Tail(s), <<>>, Append(acc, cur))
         ELSE SplitDotFrom(Tail(s), Append(cur, Head(s)), acc)

SplitDot(s) == SplitDotFrom(s, <<>>, <<>>)

\* sub in s, for strings.
Contains(s, sub) ==
    \E i \in 0..(Len(s) - Len(sub)) : SubSeq(s, i + 1, i + Len(sub)) = sub

\* float(tok) for plain decimal tokens: [sign] digits [. digits] or
\* [sign] . digits; anything else raises ValueError.  Exponents, underscores,
\* inf and nan are forms of float() no token of the model uses, and every
\* token has at most three fractional digits, so val is exact.
ParseFloat(tok) ==
    LET signed == tok # <<>> /\ tok[1] \in {"+", "-"}
        body == IF signed THEN Tail(tok) ELSE tok
        dots == {i \in 1..Len(body) : body[i] = "."}
        dot == IF dots = {} THEN Len(body) + 1 ELSE CHOOSE i \in dots : TRUE
        intPart == SubSeq(body, 1, dot - 1)
        fracPart == SubSeq(body, dot + 1, Len(body))
        ok == /\ \A i \in 1..Len(body) : body[i] \in Digits \cup {"."}
              /\ Cardinality(dots) <= 1
              /\ Len(intPart) + Len(fracPart) >= 1
        mag == DigitsVal(intPart) * 1000
               + DigitsVal(SubSeq(fracPart \o <<"0", "0", "0">>, 1, 3))
    IN  IF ok THEN [ok |-> TRUE, val |-> IF signed /\ tok[1] = "-" THEN 0 - mag ELSE mag]
        ELSE [ok |-> FALSE, val |-> 0]

\* round(x, 2) of a float: to the nearest hundredth; a tie goes to the even
\* hundredth when x is an exact binary fraction (x.125, x.375, ...).  Other
\* decimal ties are decided by the binary expansion of x; no value of the
\* model is one.
Round2(n) ==
    LET q == n \div 10
        r == n % 10
    IN  IF r < 5 THEN q * 10
        ELSE IF r > 5 THEN (q + 1) * 10
        ELSE IF q % 2 = 0 THEN q * 10 ELSE (q + 1) * 10

(***************************************************************************)
(* Python values of a snapshot: floats, lists, strings, mappings, None.    *)
(***************************************************************************)
FloatVal(n) == [kind |-> "float", num |-> n, items |-> <<>>]
ListVal == [kind |-> "list", num |-> 0, items |-> <<>>]
StrVal == [kind |-> "str", num |-> 0, items |-> <<>>]
DictVal(f) == [kind |-> "dict", num |-> 0, items |-> f]
NoneVal == [kind |-> "None", num |-> 0, items |-> <<>>]

\* Keys of the snapshot.
K_cpu == <<"c", "p", "u">>
K_ram == <<"r", "a", "m">>
K_disk == <<"d", "i", "s", "k">>
K_processes == <<"p", "r", "o", "c", "e", "s", "s", "e", "s">>
K_temp == <<"t", "e", "m", "p">>
K_usage == <<"u", "s", "a", "g", "e">>
K_per_core == <<"p", "e", "r", "_", "c", "o", "r", "e">>
K_frequency == <<"f", "r", "e", "q", "u", "e", "n", "c", "y">>
K_total == <<"t", "o", "t", "a", "l">>
K_used == <<"u", "s", "e", "d">>
K_available == <<"a", "v", "a", "i", "l", "a", "b", "l", "e">>
K_percent == <<"p", "e", "r", "c", "e", "n", "t">>
K_free == <<"f", "r", "e", "e">>
K_status == <<"s", "t", "a", "t", "u", "s">>

\* SysStat.get_stats(): the shape of a snapshot.  The four readings the
\* default rules look at vary; the other fields keep one value.
MkStats(cpuUsage, ramPercent, diskFree, diskPercent) ==
    DictVal(
        K_cpu :> DictVal(K_usage :> FloatVal(cpuUsage)
                         @@ K_per_core :> ListVal
                         @@ K_frequency :> FloatVal(2400000))
     @@ K_ram :> DictVal(K_total :> FloatVal(16000)
                         @@ K_used :> FloatVal(14125)
                         @@ K_available :> FloatVal(1875)
                         @@ K_percent :> FloatVal(ramPercent))
     @@ K_disk :> DictVal(K_total :> FloatVal(500000)
                          @@ K_used :> FloatVal(500000 - diskFree)
                          @@ K_free :> FloatVal(diskFree)
                          @@ K_percent :> FloatVal(diskPercent))
     @@ K_processes :> ListVal
     @@ K_temp :> DictVal(K_status :> StrVal))

\* The snapshots a tick can fetch: a healthy host with the CPU exactly on
\* the warning threshold, one busy CPU, the example of rules.py, and a host
\* over every threshold whose free disk space (bytes / 1024**3) has three
\* decimals.
StatsSet ==
    { MkStats(80000, 60000, 80000, 50000),
      MkStats(97500, 60000, 80000, 50000),
      MkStats(85500, 90600, 80000, 84000),
      MkStats(99100, 96000, 5237, 95000) }

\* The snapshot variable before the first fetch.
NoStats == DictVal(<<>>)

(***************************************************************************)
(* Rules.                                                                  *)
(***************************************************************************)
\* Conditions.
C_cpu_high == <<"c", "p", "u", ".", "u", "s", "a", "g", "e", " ", ">", " ", "8", "0">>
C_cpu_critical == <<"c", "p", "u", ".", "u", "s", "a", "g", "e", " ", ">", " ", "9", "5">>
C_ram_high == <<"r", "a", "m", ".", "p", "e", "r", "c", "e", "n", "t", " ", ">", " ", "8", "5">>
C_ram_critical == <<"r", "a", "m", ".", "p", "e", "r", "c", "e", "n", "t", " ", ">", " ", "9", "5">>
C_disk_high == <<"d", "i", "s", "k", ".", "p", "e", "r", "c", "e", "n", "t", " ", ">", " ", "8", "0">>
C_disk_critical == <<"d", "i", "s", "k", ".", "p", "e", "r", "c", "e", "n", "t", " ", ">", " ", "9", "0">>
C_disk_free_low == <<"d", "i", "s", "k", ".", "f", "r", "e", "e", " ", "<", " ", "1", "0">>
C_cpu_ge == <<"c", "p", "u", ".", "u", "s", "a", "g", "e", " ", ">", "=", " ", "8", "0">>
C_cpu_le == <<"c", "p", "u", ".", "u", "s", "a", "g", "e", " ", "<", "=", " ", "8", "0">>
C_cpu_eq == <<"c", "p", "u", ".", "u", "s", "a", "g", "e", " ", "=", "=", " ", "9", "7", ".", "5">>
C_cpu_ne == <<"c", "p", "u", ".", "u", "s", "a", "g", "e", " ", "!", "=", " ", "9", "7", ".", "5">>
C_cpu_lt_neg == <<"c", "p", "u", ".", "u", "s", "a", "g", "e", " ", "<", " ", "-", "1">>
C_ram_used == <<"r", "a", "m", ".", "u", "s", "e", "d", " ", ">", " ", "1", "0">>
C_cpu_tabs == <<"c", "p", "u", ".", "u", "s", "a", "g", "e", " ", " ", ">", "\t", "8", "0", " ">>
C_empty == <<>>
C_two_tokens == <<"c", "p", "u", ".", "u", "s", "a", "g", "e", " ", ">", "8", "0">>
C_four_tokens == <<"c", "p", "u", ".", "u", "s", "a", "g", "e", " ", ">", " ", "8", "0", " ", "%">>
C_absent_leaf == <<"c", "p", "u", ".", "n", "o", "p", "e", " ", ">", " ", "8", "0">>
C_absent_root == <<"g", "p", "u", ".", "u", "s", "a", "g", "e", " ", ">", " ", "8", "0">>
C_not_mapping == <<"c", "p", "u", ".", "u", "s", "a", "g", "e", ".", "m", "a", "x", " ", ">", " ", "8", "0">>
C_empty_segment == <<"c", "p", "u", ".", ".", "u", "s", "a", "g", "e", " ", ">", " ", "8", "0">>
C_unknown_op == <<"c", "p", "u", ".", "u", "s", "a", "g", "e", " ", "=", ">", " ", "8", "0">>
C_unknown_op_list == <<"c", "p", "u", ".", "p", "e", "r", "_", "c", "o", "r", "e", " ", "=", ">", " ", "8", "0">>
C_bad_threshold == <<"c", "p", "u", ".", "u", "s", "a", "g", "e", " ", ">", " ", "h", "i", "g", "h">>
C_absent_bad_threshold == <<"c", "p", "u", ".", "n", "o", "p", "e", " ", ">", " ", "h", "i", "g", "h">>
C_list_gt == <<"c", "p", "u", ".", "p", "e", "r", "_", "c", "o", "r", "e", " ", ">", " ", "8", "0">>
C_list_ne == <<"c", "p", "u", ".", "p", "e", "r", "_", "c", "o", "r", "e", " ", "!", "=", " ", "8", "0">>
C_list_eq == <<"c", "p", "u", ".", "p", "e", "r", "_", "c", "o", "r", "e", " ", "=", "=", " ", "8", "0">>
C_str_le == <<"t", "e", "m", "p", ".", "s", "t", "a", "t", "u", "s", " ", "<", "=", " ", "1">>
C_str_ne == <<"t", "e", "m", "p", ".", "s", "t", "a", "t", "u", "s", " ", "!", "=", " ", "1">>
C_dict_ge == <<"c", "p", "u", " ", ">", "=", " ", "5">>
C_dict_lt == <<"c", "p", "u", " ", "<", " ", "5">>
C_dict_ne == <<"c", "p", "u", " ", "!", "=", " ", "5">>

\* Alert names.
N_cpu_high == <<"H", "i", "g", "h", " ", "C", "P", "U", " ", "U", "s", "a", "g", "e">>
N_cpu_critical == <<"C", "r", "i", "t", "i", "c", "a", "l", " ", "C", "P", "U", " ", "U", "s", "a", "g", "e">>
N_ram_high == <<"H", "i", "g", "h", " ", "M", "e", "m", "o", "r", "y", " ", "U", "s", "a", "g", "e">>
N_ram_critical == <<"C", "r", "i", "t", "i", "c", "a", "l", " ", "M", "e", "m", "o", "r", "y", " ", "U", "s", "a", "g", "e">>
N_disk_high == <<"H", "i", "g", "h", " ", "D", "i", "s", "k", " ", "U", "s", "a", "g", "e">>
N_disk_critical == <<"C", "r", "i", "t", "i", "c", "a", "l", " ", "D", "i", "s", "k", " ", "U", "s", "a", "g", "e">>
N_disk_free_low == <<"L", "o", "w", " ", "F", "r", "e", "e", " ", "D", "i", "s", "k", " ", "S", "p", "a", "c", "e">>
N_cpu_disk == <<"C", "P", "U", " ", "D", "i", "s", "k">>
N_ram_disk == <<"R", "A", "M", " ", "D", "i", "s", "k">>
N_memory_cpu == <<"M", "e", "m", "o", "r", "y", " ", "C", "P", "U">>
N_lower == <<"c", "p", "u", " ", "m", "e", "m", "o", "r", "y", " ", "d", "i", "s", "k">>
N_load == <<"L", "o", "a", "d">>
N_ram == <<"R", "A", "M">>

Rule(name, condition, severity) ==
    [name |-> name, condition |-> condition, severity |-> severity]

\* RulesEngine._create_default_rules: the seven rules of a fresh rules.json.
DefaultRules ==
    << Rule(N_cpu_high, C_cpu_high, "warning"),
       Rule(N_cpu_critical, C_cpu_critical, "critical"),
       Rule(N_ram_high, C_ram_high, "warning"),
       Rule(N_ram_critical, C_ram_critical, "critical"),
       Rule(N_disk_high, C_disk_high, "warning"),
       Rule(N_disk_critical, C_disk_critical, "critical"),
       Rule(N_disk_free_low, C_disk_free_low, "warning") >>

\* Edited rules.json files: every operator and severity, extra whitespace.
OperatorRules ==
    << Rule(N_cpu_high, C_cpu_ge, "warning"),
       Rule(N_load, C_cpu_le, "info"),
       Rule(N_cpu_critical, C_cpu_eq, "critical"),
       Rule(N_load, C_cpu_ne, "debug"),
       Rule(N_load, C_cpu_lt_neg, "critical"),
       Rule(N_ram, C_ram_used, "warning"),
       Rule(N_cpu_high, C_cpu_tabs, "info") >>

\* Names with several, or none, of the topic substrings.
TopicRules ==
    << Rule(N_cpu_disk, C_cpu_ge, "critical"),
       Rule(N_ram_disk, C_cpu_ge, "warning"),
       Rule(N_memory_cpu, C_cpu_ge, "info"),
       Rule(N_lower, C_cpu_ge, "warning"),
       Rule(N_load, C_cpu_ge, "critical") >>

\* Conditions that are not three tokens, paths that do not resolve, an
\* operator that is not one of the six.
MalformedRules ==
    << Rule(N_load, C_empty, "critical"),
       Rule(N_load, C_two_tokens, "critical"),
       Rule(N_load, C_four_tokens, "critical"),
       Rule(N_load, C_absent_leaf, "critical"),
       Rule(N_load, C_absent_root, "critical"),
       Rule(N_load, C_not_mapping, "critical"),
       Rule(N_load, C_empty_segment, "critical"),
       Rule(N_load, C_unknown_op, "critical"),
       Rule(N_load, C_unknown_op_list, "critical"),
       Rule(N_cpu_critical, C_cpu_critical, "critical") >>

\* A threshold that is not a number, on a resolvable and on an absent path.
BadThresholdRules ==
    << Rule(N_cpu_high, C_cpu_high, "warning"),
       Rule(N_load, C_absent_bad_threshold, "warning"),
       Rule(N_load, C_bad_threshold, "warning"),
       Rule(N_cpu_critical, C_cpu_critical, "critical") >>

\* Paths that resolve to a list, a string or a mapping, under == and !=.
NonNumericEqRules ==
    << Rule(N_load, C_list_eq, "warning"),
       Rule(N_cpu_high, C_list_ne, "warning"),
       Rule(N_load, C_str_ne, "info"),
       Rule(N_cpu_critical, C_dict_ne, "critical"),
       Rule(N_cpu_critical, C_cpu_critical, "critical") >>

\* The same paths under the ordering operators.
NonNumericOrdRules ==
    << Rule(N_cpu_high, C_cpu_high, "warning"),
       Rule(N_load, C_list_gt, "warning"),
       Rule(N_load, C_str_le, "warning"),
       Rule(N_load, C_dict_ge, "warning"),
       Rule(N_load, C_dict_lt, "warning"),
       Rule(N_cpu_critical, C_cpu_critical, "critical") >>

\* RulesEngine.load_rules: the content of rules.json, or {} when it cannot
\* be parsed.
RuleStores ==
    { DefaultRules, OperatorRules, TopicRules, MalformedRules,
      BadThresholdRules, NonNumericEqRules, NonNumericOrdRules, <<>> }

(***************************************************************************)
(* RulesEngine.                                                            *)
(***************************************************************************)
\* RulesEngine._get_nested_value: walk the mapping key by key.
RECURSIVE WalkKeys(_, _)
WalkKeys(value, keys) ==
    IF keys = <<>> THEN value
    ELSE IF value.kind = "dict" /\ Head(keys) \in DOMAIN value.items
         THEN WalkKeys(value.items[Head(keys)], Tail(keys))
         ELSE NoneVal

GetNestedValue(data, path) == WalkKeys(data, SplitDot(path))

\* The operators table of evaluate.
O_gt == <<">">>
O_lt == <<"<">>
O_ge == <<">", "=">>
O_le == <<"<", "=">>
O_eq == <<"=", "=">>
O_ne == <<"!", "=">>
Operators == {O_gt, O_lt, O_ge, O_le, O_eq, O_ne}

Returned(b) == [raised |-> "none", ret |-> b]
Raised(e) == [raised |-> e, ret |-> FALSE]

\* ApplyOperator with >= and <= taken for > and <.
ApplyOperatorStrict(op, x, y) ==
    IF x.kind = "float"
    THEN Returned(CASE op = O_gt -> x.num > y
                    [] op = O_lt -> x.num < y
                    [] op = O_ge -> x.num > y
                    [] op = O_le -> x.num < y
                    [] op = O_eq -> x.num = y
                    [] op = O_ne -> x.num # y)
    ELSE IF op = O_eq THEN Returned(FALSE)
    ELSE IF op = O_ne THEN Returned(TRUE)
    ELSE Raised("TypeError")

\* op_func(current_value, threshold) with a float threshold.  A list, a
\* string or a mapping is never equal to a float, and ordering it against a
\* float raises TypeError.
ApplyOperator(op, x, y) ==
    IF x.kind = "float"
    THEN Returned(CASE op = O_gt -> x.num > y
                    [] op = O_lt -> x.num < y
                    [] op = O_ge -> x.num >= y
                    [] op = O_le -> x.num <= y
                    [] op = O_eq -> x.num = y
                    [] op = O_ne -> x.num # y)
    ELSE IF op = O_eq THEN Returned(FALSE)
    ELSE IF op = O_ne THEN Returned(TRUE)
    ELSE Raised("TypeError")

\* RulesEngine.evaluate.
Evaluate(condition, data) ==
    LET parts == Split(condition)
    IN  IF Len(parts) # 3 THEN Returned(FALSE)
        ELSE LET threshold == ParseFloat(parts[3])
                 current_value == GetNestedValue(data, parts[1])
             IN  IF ~threshold.ok THEN Raised("ValueError")
                 ELSE IF current_value = NoneVal THEN Returned(FALSE)
                 ELSE IF parts[2] \in Operators
                      THEN ApplyOperator(parts[2], current_value, threshold.val)
                      ELSE Returned(FALSE)

\* extract_value without the rounding of floats.
ExtractValueUnrounded(condition, data) ==
    GetNestedValue(data, Split(condition)[1])

\* RulesEngine.extract_value.
ExtractValue(condition, data) ==
    LET value == GetNestedValue(data, Split(condition)[1])
    IN  IF value.kind = "float" THEN FloatVal(Round2(value.num)) ELSE value

Alert(rule, data) ==
    [name |-> rule.name, severity |-> rule.severity,
     current_value |-> ExtractValue(rule.condition, data)]

\* RulesEngine.check: the rules in store order; an exception of evaluate
\* ends the pass and the list built so far is lost.
RECURSIVE CheckFrom(_, _, _, _)
CheckFrom(store, data, i, triggered) ==
    IF i > Len(store) THEN [raised |-> "none", alerts |-> triggered]
    ELSE LET e == Evaluate(store[i].condition, data)
         IN  IF e.raised # "none" THEN [raised |-> e.raised, alerts |-> <<>>]
             ELSE CheckFrom(store, data, i + 1,
                            IF e.ret THEN Append(triggered, Alert(store[i], data))
                            ELSE triggered)

\* check with a memory of earlier alerts: a rule already in the history
\* is not reported again.
CheckSuppressRepeats(store, data) ==
    LET all == CheckFrom(store, data, 1, <<>>)
    IN  [raised |-> all.raised,
         alerts |-> SelectSeq(all.alerts,
                              LAMBDA a : \A k \in 1..Len(appended) :
                                             appended[k].name # a.name)]

Check(store, data) == CheckFrom(store, data, 1, <<>>)

(***************************************************************************)
(* Actions.                                                                *)
(***************************************************************************)
\* The cap of _save_to_history.
HistoryLimit == 1000

\* The history file as _save_to_history finds it: absent, a JSON list of
\* records, text that json.load rejects with JSONDecodeError (empty or cut
\* short included), valid JSON that is not a list ({} or null), or a file
\* whose open or read raises another error (no permission, bad encoding).
MissingFile == [kind |-> "missing", recs |-> <<>>]
ListFile(recs) == [kind |-> "list", recs |-> recs]
CorruptFile == [kind |-> "corrupt", recs |-> <<>>]
NotListFile == [kind |-> "notlist", recs |-> <<>>]
UnreadableFile == [kind |-> "unreadable", recs |-> <<>>]

\* alert_record of _save_to_history.
Record(alert, timestamp) ==
    [timestamp |-> timestamp, name |-> alert.name,
     severity |-> alert.severity, current_value |-> alert.current_value]

\* The trim keeping the oldest records: history[:1000].
KeepFirst(history) ==
    IF Len(history) > HistoryLimit THEN SubSeq(history, 1, HistoryLimit)
    ELSE history

\* history[-1000:] when the list is longer than the cap.
KeepLast(history) ==
    IF Len(history) > HistoryLimit
    THEN SubSeq(history, Len(history) - HistoryLimit + 1, Len(history))
    ELSE history

\* What one call leaves behind: the events in order, the file, the records
\* written, and the exception that escaped.
Outcome(events, file, saved, exc) ==
    [trace |-> events, file |-> file, saved |-> saved, raised |-> exc]

\* Actions._save_to_history.  write is what the file system does with the
\* write: "ok", "open_fails" (the file is left as it was) or "dump_fails"
\* (open(..., 'w') has emptied the file and json.dump fails part-way).
SaveToHistory(file, alert, clock, write) ==
    IF file.kind = "unreadable"
    THEN Outcome(<<"history">>, file, <<>>, "OSError")
    ELSE IF file.kind = "notlist"
    THEN Outcome(<<"history">>, file, <<>>, "AttributeError")
    ELSE LET loaded == IF file.kind = "list" THEN file.recs ELSE <<>>
             history == KeepLast(Append(loaded, Record(alert, clock)))
         IN  CASE write = "ok" ->
                    Outcome(<<"history">>, ListFile(history),
                            <<Record(alert, clock)>>, "none")
               [] write = "open_fails" ->
                    Outcome(<<"history", "report:history">>, file, <<>>, "none")
               [] write = "dump_fails" ->
                    Outcome(<<"history", "report:history">>, CorruptFile, <<>>, "none")

\* _send_email without the test of email.enabled.
SendEmailAlways(enabled, smtp) ==
    IF smtp = "sent" THEN <<"smtp", "print:email_sent">>
    ELSE <<"smtp", "report:email">>

\* Actions._send_email: nothing unless email.enabled; otherwise one SMTP
\* session whose failure is caught and reported.
SendEmail(enabled, smtp) ==
    IF ~enabled THEN <<>>
    ELSE IF smtp = "sent" THEN <<"smtp", "print:email_sent">>
    ELSE <<"smtp", "report:email">>

\* Actions._system_notification: platform call, failure caught and reported.
SystemNotification(notify) ==
    IF notify = "ok" THEN <<"notify">> ELSE <<"notify", "report:notify">>

\* Actions._handle_critical.
HandleCritical(file, alert, clock, enabled, env) ==
    LET first == <<"log:critical">> \o SendEmail(enabled, env.smtp)
        saved == SaveToHistory(file, alert, clock, env.write)
    IN  IF saved.raised # "none"
        THEN Outcome(first \o saved.trace, saved.file, saved.saved, saved.raised)
        ELSE Outcome(first \o saved.trace \o SystemNotification(env.notify),
                     saved.file, saved.saved, "none")

\* _handle_warning without the history append.
HandleWarningNoSave(file, alert, clock, env) ==
    Outcome(<<"log:warning">>, file, <<>>, "none")

\* Actions._handle_warning.
HandleWarning(file, alert, clock, env) ==
    LET saved == SaveToHistory(file, alert, clock, env.write)
    IN  Outcome(<<"log:warning">> \o saved.trace, saved.file, saved.saved,
                saved.raised)

\* Actions._handle_info.
HandleInfo(file) == Outcome(<<"log:info">>, file, <<>>, "none")

S_CPU == <<"C", "P", "U">>
S_Memory == <<"M", "e", "m", "o", "r", "y">>
S_RAM == <<"R", "A", "M">>
S_Disk == <<"D", "i", "s", "k">>

\* The name branch of execute.
TopicHooks(name) ==
    IF Contains(name, S_CPU) THEN <<"hook:cpu">>
    ELSE IF Contains(name, S_Memory) \/ Contains(name, S_RAM) THEN <<"hook:memory">>
    ELSE IF Contains(name, S_Disk) THEN <<"hook:disk">>
    ELSE <<>>

\* The severity branch of execute.
SeverityBranch(file, alert, clock, enabled, env) ==
    IF alert.severity = "critical" THEN HandleCritical(file, alert, clock, enabled, env)
    ELSE IF alert.severity = "warning" THEN HandleWarning(file, alert, clock, env)
    ELSE IF alert.severity = "info" THEN HandleInfo(file)
    ELSE Outcome(<<>>, file, <<>>, "none")

\* Actions.execute.
Execute(file, alert, clock, enabled, env) ==
    LET branch == SeverityBranch(file, alert, clock, enabled, env)
    IN  IF branch.raised # "none" THEN branch
        ELSE Outcome(branch.trace \o TopicHooks(alert.name), branch.file,
                     branch.saved, "none")

\* Actions.execute cut short by KeyboardInterrupt, which no "except
\* Exception" of actions.py catches.  The first cut events are done and the
\* next one has begun.  Inside _save_to_history the interrupt comes while
\* the file is read, or after open(..., 'w') has emptied it and before
\* json.dump has finished.
ExecuteInterrupted(file, alert, clock, enabled, env, cut, stage) ==
    LET full == Execute(file, alert, clock, enabled, env)
        begun == SubSeq(full.trace, 1, cut + 1)
        saveDone == \E k \in 1..cut : full.trace[k] = "history"
    IN  IF saveDone
        THEN Outcome(begun, full.file, full.saved, "KeyboardInterrupt")
        ELSE IF full.trace[cut + 1] = "history" /\ stage = "writing"
                /\ file.kind \in {"missing", "list", "corrupt"}
        THEN Outcome(begun \o <<"write:partial">>, CorruptFile, <<>>,
                     "KeyboardInterrupt")
        ELSE Outcome(begun, file, <<>>, "KeyboardInterrupt")

SaveStages == {"reading", "writing"}

\* What the environment can do to one execute call.
SmtpOutcomes == {"sent", "fails"}
NotifyOutcomes == {"ok", "fails"}
WriteOutcomes == IF fsFaults THEN {"ok", "open_fails", "dump_fails"} ELSE {"ok"}
Environments == [smtp : SmtpOutcomes, write : WriteOutcomes, notify : NotifyOutcomes]

(***************************************************************************)
(* The monitor loop.                                                       *)
(***************************************************************************)
NoAlert == [name |-> <<>>, severity |-> "none", current_value |-> NoneVal]

\* One call made by the loop: get_stats, check, execute(alert) or sleep.
Call(op, alert) == [op |-> op, alert |-> alert]

\* A record already in the history file when the monitor starts.
OldRecord == Record([name |-> N_cpu_high, severity |-> "warning",
                     current_value |-> FloatVal(85500)], 0)

\* monitor, lines 65-73, after initialize(): the components are loaded, no
\* tick has run.
InitWith(files) ==
    /\ rules \in RuleStores
    /\ emailEnabled \in BOOLEAN
    /\ historyFile \in files
    /\ now = 1
    /\ pc = "fetch"
    /\ iteration = 0
    /\ stats = NoStats
    /\ alerts = <<>>
    /\ cursor = 0
    /\ lastAlert = NoAlert
    /\ trace = <<>>
    /\ raised = "none"
    /\ appended = <<>>
    /\ tickLog = <<>>

\* A file system that works: the history file is absent, a list the
\* monitor wrote earlier, or text that is not JSON.
Init ==
    /\ fsFaults = FALSE
    /\ InitWith({MissingFile, ListFile(<<>>), ListFile(<<OldRecord>>), CorruptFile})

\* sys.get_stats() at the top of a tick.
GetStats ==
    /\ pc = "fetch"
    /\ iteration < (IF fsFaults THEN MaxFaultTicks ELSE MaxTicks)
    /\ iteration' = iteration + 1
    /\ stats' \in StatsSet
    /\ pc' = "check"
    /\ tickLog' = <<Call("get_stats", NoAlert)>>
    /\ UNCHANGED <<rules, emailEnabled, fsFaults, historyFile, now, alerts,
                   cursor, lastAlert, trace, raised, appended>>

\* rules.check(stats); an exception leaves monitor, which catches only
\* KeyboardInterrupt.
CheckRules ==
    /\ pc = "check"
    /\ LET result == Check(rules, stats)
       IN  /\ raised' = result.raised
           /\ alerts' = result.alerts
           /\ cursor' = 0
           /\ pc' = IF result.raised # "none" THEN "crashed"
                    ELSE IF result.alerts = <<>> THEN "sleep"
                    ELSE "dispatch"
    /\ tickLog' = Append(tickLog, Call("check", NoAlert))
    /\ UNCHANGED <<rules, emailEnabled, fsFaults, historyFile, now, iteration,
                   stats, lastAlert, trace, appended>>

\* One actions.execute(alert) call with its outcome.
Dispatch(alert, env) ==
    LET result == Execute(historyFile, alert, now, emailEnabled, env)
    IN  /\ lastAlert' = alert
        /\ trace' = result.trace
        /\ raised' = result.raised
        /\ historyFile' = result.file
        /\ appended' = appended \o result.saved
        /\ now' = now + 1

\* The loop body leaving the for loop after its first alert.
ExecuteAlertThenSleep ==
    /\ pc = "dispatch"
    /\ cursor < Len(alerts)
    /\ \E env \in Environments : Dispatch(alerts[cursor + 1], env)
    /\ cursor' = cursor + 1
    /\ tickLog' = Append(tickLog, Call("execute", alerts[cursor + 1]))
    /\ pc' = IF raised' # "none" THEN "crashed" ELSE "sleep"
    /\ UNCHANGED <<rules, emailEnabled, fsFaults, iteration, stats, alerts>>

\* The body of "for alert in alerts".
ExecuteAlert ==
    /\ pc = "dispatch"
    /\ cursor < Len(alerts)
    /\ \E env \in Environments : Dispatch(alerts[cursor + 1], env)
    /\ cursor' = cursor + 1
    /\ tickLog' = Append(tickLog, Call("execute", alerts[cursor + 1]))
    /\ pc' = IF raised' # "none" THEN "crashed"
             ELSE IF cursor' = Len(alerts) THEN "sleep"
             ELSE "dispatch"
    /\ UNCHANGED <<rules, emailEnabled, fsFaults, iteration, stats, alerts>>

\* time.sleep(interval), then the next iteration.
Sleep ==
    /\ pc = "sleep"
    /\ pc' = "fetch"
    /\ tickLog' = Append(tickLog, Call("sleep", NoAlert))
    /\ UNCHANGED <<rules, emailEnabled, fsFaults, historyFile, now, iteration,
                   stats, alerts, cursor, lastAlert, trace, raised, appended>>

Next == GetStats \/ CheckRules \/ ExecuteAlert \/ Sleep

(***************************************************************************)
(* Single-shot mode and the operator interrupt.                            *)
(***************************************************************************)
MonitorPcs == {"fetch", "check", "dispatch", "sleep"}
OncePcs == {"once_fetch", "once_check", "once_dispatch", "once_display"}

\* run_once: stats = sys.get_stats().
OnceGetStats ==
    /\ pc = "once_fetch"
    /\ stats' \in StatsSet
    /\ pc' = "once_check"
    /\ tickLog' = <<Call("get_stats", NoAlert)>>
    /\ UNCHANGED <<rules, emailEnabled, fsFaults, historyFile, now, iteration,
                   alerts, cursor, lastAlert, trace, raised, appended>>

\* run_once: alerts = rules.check(stats); run_once catches nothing.
OnceCheck ==
    /\ pc = "once_check"
    /\ LET result == Check(rules, stats)
       IN  /\ raised' = result.raised
           /\ alerts' = result.alerts
           /\ cursor' = 0
           /\ pc' = IF result.raised # "none" THEN "crashed"
                    ELSE IF result.alerts = <<>> THEN "once_display"
                    ELSE "once_dispatch"
    /\ tickLog' = Append(tickLog, Call("check", NoAlert))
    /\ UNCHANGED <<rules, emailEnabled, fsFaults, historyFile, now, iteration,
                   stats, lastAlert, trace, appended>>

\* run_once: the body of "for alert in alerts".
OnceExecute ==
    /\ pc = "once_dispatch"
    /\ cursor < Len(alerts)
    /\ \E env \in Environments : Dispatch(alerts[cursor + 1], env)
    /\ cursor' = cursor + 1
    /\ tickLog' = Append(tickLog, Call("execute", alerts[cursor + 1]))
    /\ pc' = IF raised' # "none" THEN "crashed"
             ELSE IF cursor' = Len(alerts) THEN "once_display"
             ELSE "once_dispatch"
    /\ UNCHANGED <<rules, emailEnabled, fsFaults, iteration, stats, alerts>>

\* A display that starts the check over instead of returning.
DisplayThenAgain ==
    /\ pc = "once_display"
    /\ pc' = "once_fetch"
    /\ tickLog' = Append(tickLog, Call("get_stats", NoAlert))
    /\ UNCHANGED <<rules, emailEnabled, fsFaults, historyFile, now, iteration,
                   stats, alerts, cursor, lastAlert, trace, raised, appended>>

\* run_once: sys.display(), which prints a snapshot it fetches itself with
\* get_stats(); then run_once returns.
Display ==
    /\ pc = "once_display"
    /\ pc' = "once_returned"
    /\ tickLog' = Append(tickLog, Call("get_stats", NoAlert))
    /\ UNCHANGED <<rules, emailEnabled, fsFaults, historyFile, now, iteration,
                   stats, alerts, cursor, lastAlert, trace, raised, appended>>

OnceNext == OnceGetStats \/ OnceCheck \/ OnceExecute \/ Display

\* Where KeyboardInterrupt ends up: monitor catches it, prints the shutdown
\* lines and returns; run_once and main have no handler for it.
AfterInterrupt == IF pc \in MonitorPcs THEN "shutdown" ELSE "crashed"

\* CTRL+C while the loop is in get_stats, check or sleep, or between two
\* calls.
Interrupt ==
    /\ pc \in MonitorPcs \cup OncePcs
    /\ pc' = AfterInterrupt
    /\ raised' = "KeyboardInterrupt"
    /\ UNCHANGED <<rules, emailEnabled, fsFaults, historyFile, now, iteration,
                   stats, alerts, cursor, lastAlert, trace, appended, tickLog>>

\* CTRL+C inside actions.execute(alert).
InterruptExecute ==
    /\ pc \in {"dispatch", "once_dispatch"}
    /\ cursor < Len(alerts)
    /\ \E env \in Environments, stage \in SaveStages :
          \E cut \in 0..(Len(Execute(historyFile, alerts[cursor + 1], now,
                                     emailEnabled, env).trace) - 1) :
             LET result == ExecuteInterrupted(historyFile, alerts[cursor + 1], now,
                                              emailEnabled, env, cut, stage)
             IN  /\ lastAlert' = alerts[cursor + 1]
                 /\ trace' = result.trace
                 /\ raised' = result.raised
                 /\ historyFile' = result.file
                 /\ appended' = appended \o result.saved
                 /\ now' = now + 1
    /\ cursor' = cursor + 1
    /\ tickLog' = Append(tickLog, Call("execute", alerts[cursor + 1]))
    /\ pc' = AfterInterrupt
    /\ UNCHANGED <<rules, emailEnabled, fsFaults, iteration, stats, alerts>>

\* main(): continuous monitoring or --once, on a file system that works,
\* with an operator who may press CTRL+C at any time.
RunInit ==
    /\ fsFaults = FALSE
    /\ rules \in RuleStores
    /\ emailEnabled \in BOOLEAN
    /\ historyFile \in {MissingFile, ListFile(<<>>), ListFile(<<OldRecord>>), CorruptFile}
    /\ now = 1
    /\ pc \in {"fetch", "once_fetch"}
    /\ iteration = 0
    /\ stats = NoStats
    /\ alerts = <<>>
    /\ cursor = 0
    /\ lastAlert = NoAlert
    /\ trace = <<>>
    /\ raised = "none"
    /\ appended = <<>>
    /\ tickLog = <<>>

RunNext == Next \/ OnceNext \/ Interrupt \/ InterruptExecute

RunSpec == RunInit /\ [][RunNext]_vars

Spec == Init /\ [][Next]_vars

\* The same monitor on a file system that can fail: the history file may
\* also hold JSON that is not a list or be unreadable, and a write may fail.
FaultInit ==
    /\ fsFaults = TRUE
    /\ InitWith({MissingFile, ListFile(<<>>), ListFile(<<OldRecord>>), CorruptFile,
                 NotListFile, UnreadableFile})

FaultSpec == FaultInit /\ [][Next]_vars

\* Dispatches one at a time on an empty or missing history file: the same
\* critical or warning alert again and again, up to MaxAppends times.
HistAlerts ==
    { [name |-> N_cpu_critical, severity |-> "critical", current_value |-> FloatVal(97500)],
      [name |-> N_ram_high, severity |-> "warning", current_value |-> FloatVal(90600)] }

HistInit ==
    /\ rules = <<>>
    /\ emailEnabled = FALSE
    /\ fsFaults = FALSE
    /\ historyFile \in {MissingFile, ListFile(<<>>)}
    /\ now = 1
    /\ pc = "hist"
    /\ iteration = 0
    /\ stats = NoStats
    /\ alerts \in {<<a>> : a \in HistAlerts}
    /\ cursor = 0
    /\ lastAlert = NoAlert
    /\ trace = <<>>
    /\ raised = "none"
    /\ appended = <<>>
    /\ tickLog = <<>>

HistDispatch ==
    /\ pc = "hist"
    /\ Len(appended) < MaxAppends
    /\ \E env \in Environments : Dispatch(alerts[1], env)
    /\ UNCHANGED <<rules, emailEnabled, fsFaults, pc, iteration, stats, alerts,
                   cursor, tickLog>>

HistNext == HistDispatch

HistSpec == HistInit /\ [][HistNext]_vars

(***************************************************************************)
(* Properties of RulesEngine.                                              *)
(***************************************************************************)
RuleIndexes == 1..Len(rules)
Parts(i) == Split(rules[i].condition)
\* rules.check has run on the snapshot of the current tick.
CheckActed == pc \in {"dispatch", "sleep", "crashed"}

\* The value at the metric path of rule i in the current snapshot.
PathValue(i) == GetNestedValue(stats, Parts(i)[1])

\* current_value op threshold, on numbers.
DirectComparison(op, current, threshold) ==
    \/ op = O_gt /\ current > threshold
    \/ op = O_lt /\ current < threshold
    \/ op = O_ge /\ (current > threshold \/ current = threshold)
    \/ op = O_le /\ (current < threshold \/ current = threshold)
    \/ op = O_eq /\ current = threshold
    \/ op = O_ne /\ current # threshold

\* Rule i is "path op threshold" with one of the six operators, a number
\* as threshold and a path that resolves to a number.
WellFormed(i) ==
    /\ Len(Parts(i)) = 3
    /\ Parts(i)[2] \in Operators
    /\ ParseFloat(Parts(i)[3]).ok
    /\ PathValue(i).kind = "float"

\* C1: for a three-token condition with one of the six operators, a numeric
\* threshold and a path that resolves to a number, evaluate returns true
\* exactly when current_value op threshold holds, and false otherwise.
C1_EvaluateIsDirectComparison ==
    CheckActed =>
        \A i \in RuleIndexes :
            WellFormed(i) =>
                Evaluate(rules[i].condition, stats)
                  = Returned(DirectComparison(Parts(i)[2], PathValue(i).num,
                                              ParseFloat(Parts(i)[3]).val))

\* C1 witness: a check pass has run over a store in which one >= rule sits
\* exactly on its threshold and fires, and another well-formed rule does not.
C1_Witness ==
    /\ pc = "dispatch"
    /\ \E i, j \in RuleIndexes :
          /\ WellFormed(i) /\ WellFormed(j)
          /\ Parts(i)[2] = O_ge
          /\ PathValue(i).num = ParseFloat(Parts(i)[3]).val
          /\ Evaluate(rules[i].condition, stats) = Returned(TRUE)
          /\ Evaluate(rules[j].condition, stats) = Returned(FALSE)

\* The path of rule i does not resolve: a segment is absent or an
\* intermediate value is not a mapping.
Unresolvable(i) == Len(Parts(i)) = 3 /\ PathValue(i) = NoneVal

\* C2: a condition that is not three tokens, or whose path does not resolve
\* in the snapshot, makes evaluate return false without raising, whatever
\* its other tokens are.
C2_MalformedOrUnresolvedIsFalse ==
    CheckActed =>
        \A i \in RuleIndexes :
            (Len(Parts(i)) # 3 \/ Unresolvable(i)) =>
                Evaluate(rules[i].condition, stats) = Returned(FALSE)

\* Rule i is well formed but for its path, which resolves to a list, a
\* string or a mapping.
NonNumeric(i) ==
    /\ Len(Parts(i)) = 3
    /\ Parts(i)[2] \in Operators
    /\ ParseFloat(Parts(i)[3]).ok
    /\ PathValue(i).kind \in {"list", "str", "dict"}

\* C3: a rule whose path resolves to a non-numeric value never fires: under
\* each of the six operators evaluate returns false without raising, so
\* check yields no alert for it and goes on to the other rules.
C3_NonNumericNeverFires ==
    CheckActed =>
        \A i \in RuleIndexes :
            NonNumeric(i) =>
                /\ Evaluate(rules[i].condition, stats) = Returned(FALSE)
                /\ pc # "crashed"

\* The rules whose condition evaluates true, in store order.
Triggered == SelectSeq(rules, LAMBDA r : Evaluate(r.condition, stats) = Returned(TRUE))
SomeRuleRaises ==
    \E i \in RuleIndexes : Evaluate(rules[i].condition, stats).raised # "none"
AfterCheck == pc \in {"dispatch", "sleep"}

\* The value at the metric path of rule r.
RawValue(r) == GetNestedValue(stats, Split(r.condition)[1])

\* shown is found rounded to two decimals: a float on the hundredths grid
\* and no further from found than half a hundredth; other values unchanged.
RoundedToTwoDecimals(shown, found) ==
    IF found.kind = "float"
    THEN /\ shown.kind = "float"
         /\ shown.num % 10 = 0
         /\ shown.num - found.num \in -5..5
    ELSE shown = found

InTrace(e) == \E k \in 1..Len(trace) : trace[k] = e
Severe(alert) == alert.severity \in {"critical", "warning"}

\* The records of the history file as a reader sees them.
Stored(file) == IF file.kind = "list" THEN file.recs ELSE <<>>

\* rec is the history record of alert.
RecordOf(rec, alert) ==
    /\ rec.name = alert.name
    /\ rec.severity = alert.severity
    /\ rec.current_value = alert.current_value

\* The last stored record is the one of the last dispatch.
LastRecordIsLastAlert ==
    /\ historyFile.kind = "list"
    /\ historyFile.recs # <<>>
    /\ RecordOf(historyFile.recs[Len(historyFile.recs)], lastAlert)
    /\ historyFile.recs[Len(historyFile.recs)].timestamp = now - 1

\* C5: execute appends exactly one record, with the alert's name, severity
\* and current_value, to the alert history when the severity is critical or
\* warning, and leaves the history as it was when the severity is info.
C5_HistoryAppendBySeverity ==
    [][now' = now + 1 =>
          IF Severe(lastAlert')
          THEN /\ historyFile'.kind = "list"
               /\ Len(historyFile'.recs) = Len(Stored(historyFile)) + 1
               /\ SubSeq(historyFile'.recs, 1, Len(Stored(historyFile)))
                    = Stored(historyFile)
               /\ RecordOf(historyFile'.recs[Len(historyFile'.recs)], lastAlert')
          ELSE historyFile' = historyFile]_vars

\* C5 witness: an info alert has just been dispatched and the last record
\* of the history is the one the warning or critical dispatch before it
\* appended.
C5_Witness ==
    /\ lastAlert.severity = "info"
    /\ trace # <<>>
    /\ historyFile.kind = "list"
    /\ Len(historyFile.recs) >= 2
    /\ historyFile.recs[Len(historyFile.recs)].timestamp = now - 2
    /\ historyFile.recs[Len(historyFile.recs)].severity \in {"critical", "warning"}

\* C6: execute attempts email only for a critical alert with email.enabled
\* true; a critical alert with email disabled does no network I/O, still
\* appends its record and attempts the desktop notification; warning and
\* info alerts attempt neither email nor desktop notification.
C6_EmailOnlyCriticalEnabled ==
    lastAlert # NoAlert =>
        /\ InTrace("smtp") => (lastAlert.severity = "critical" /\ emailEnabled)
        /\ (lastAlert.severity = "critical" /\ ~emailEnabled) =>
              /\ ~InTrace("smtp")
              /\ LastRecordIsLastAlert
              /\ InTrace("notify")
        /\ lastAlert.severity \in {"warning", "info"} =>
              (~InTrace("smtp") /\ ~InTrace("notify"))

\* C6 witness: a critical alert dispatched with email disabled, recorded
\* and notified, after an earlier dispatch.
C6_Witness ==
    /\ lastAlert.severity = "critical"
    /\ ~emailEnabled
    /\ now > 2
    /\ InTrace("notify")
    /\ LastRecordIsLastAlert

\* C7: after the severity branch the CPU hook runs whenever the name
\* contains "CPU", the memory hook whenever it contains "Memory" or "RAM",
\* the disk hook whenever it contains "Disk"; a name with several of them
\* runs every matching hook, a name with none runs no hook.
C7_EveryMatchingHookRuns ==
    (lastAlert # NoAlert /\ raised = "none") =>
        /\ InTrace("hook:cpu") <=> Contains(lastAlert.name, S_CPU)
        /\ InTrace("hook:memory") <=>
              (Contains(lastAlert.name, S_Memory) \/ Contains(lastAlert.name, S_RAM))
        /\ InTrace("hook:disk") <=> Contains(lastAlert.name, S_Disk)

\* C8: after n dispatches of a critical or warning alert from an empty or
\* missing history file, the stored history has min(n, 1000) records: the
\* most recent min(n, 1000) appended, in append order.
C8_HistoryIsLastThousand ==
    pc = "hist" =>
        LET n == now - 1
            kept == IF n < HistoryLimit THEN n ELSE HistoryLimit
        IN  /\ Len(Stored(historyFile)) = kept
            /\ Len(Stored(historyFile)) <= HistoryLimit
            /\ Len(appended) = n
            /\ \A k \in 1..kept :
                  /\ historyFile.recs[k] = appended[n - kept + k]
                  /\ historyFile.recs[k].timestamp = n - kept + k
                  /\ RecordOf(historyFile.recs[k], alerts[1])

\* C8 witness: more dispatches than the cap, the history at the cap and its
\* oldest records gone.
C8_Witness ==
    /\ pc = "hist"
    /\ now - 1 > HistoryLimit + 1
    /\ Len(Stored(historyFile)) = HistoryLimit
    /\ historyFile.recs[1].timestamp = now - HistoryLimit

\* C9: appending to the history is never fatal: on a missing, unreadable,
\* unparseable or non-list history file _save_to_history takes the history
\* as empty, stores just the new record and returns normally; a failing
\* write is reported and it returns normally.
C9_SaveNeverFatal ==
    [][(now' = now + 1 /\ Severe(lastAlert')) =>
          /\ raised' = "none"
          /\ historyFile.kind \in {"missing", "unreadable", "corrupt", "notlist"} =>
                \/ historyFile' = ListFile(<<Record(lastAlert', now)>>)
                \/ \E k \in 1..Len(trace') : trace'[k] = "report:history"]_vars

\* What execute attempts, without the reports and prints in between.
Attempts ==
    SelectSeq(trace, LAMBDA e : e \in {"log:critical", "log:warning", "log:info",
                                       "smtp", "history", "notify",
                                       "hook:cpu", "hook:memory", "hook:disk"})
CriticalActions ==
    <<"log:critical">> \o (IF emailEnabled THEN <<"smtp">> ELSE <<>>)
        \o <<"history", "notify">>
HasTopic(name) ==
    \/ Contains(name, S_CPU) \/ Contains(name, S_Memory)
    \/ Contains(name, S_RAM) \/ Contains(name, S_Disk)

\* C10: execute is best-effort: whatever fails, a critical alert gets its
\* log line, email, history append, desktop notification and topic hook
\* attempted in this order, and execute returns normally.
C10_ExecuteBestEffort ==
    lastAlert # NoAlert =>
        /\ raised = "none"
        /\ lastAlert.severity = "critical" =>
              /\ Len(Attempts) >= Len(CriticalActions)
              /\ SubSeq(Attempts, 1, Len(CriticalActions)) = CriticalActions
              /\ HasTopic(lastAlert.name) => Len(Attempts) = Len(CriticalActions) + 1

(***************************************************************************)
(* Properties of the monitor loop.                                         *)
(***************************************************************************)
\* The execute calls for the first n alerts of the list, in list order.
ExecuteCalls(n) == [k \in 1..n |-> Call("execute", alerts[k])]
TickHead == <<Call("get_stats", NoAlert), Call("check", NoAlert)>>
TickSlept == pc = "fetch" /\ iteration > 0

\* C12: in every tick of the continuous loop one snapshot is fetched, check
\* is called once on it, execute is called once for each alert check
\* returned, in the returned order and for no other alert, and only then
\* the loop sleeps and starts the next tick.
C12_TickOrder ==
    /\ pc = "check" => tickLog = <<Call("get_stats", NoAlert)>>
    /\ pc = "dispatch" =>
          /\ cursor < Len(alerts)
          /\ tickLog = TickHead \o ExecuteCalls(cursor)
    /\ pc = "sleep" => tickLog = TickHead \o ExecuteCalls(Len(alerts))
    /\ TickSlept =>
          tickLog = TickHead \o ExecuteCalls(Len(alerts)) \o <<Call("sleep", NoAlert)>>
    /\ (pc \in {"dispatch", "sleep"} \/ TickSlept) =>
          /\ Len(alerts) = Len(Triggered)
          /\ \A k \in 1..Len(alerts) : alerts[k].name = Triggered[k].name

\* C12 witness: the second tick has dispatched several alerts and slept.
C12_Witness ==
    /\ pc = "fetch"
    /\ iteration >= 2
    /\ Len(alerts) >= 2
    /\ tickLog[Len(tickLog)].op = "sleep"
    /\ tickLog[Len(tickLog) - 1] = Call("execute", alerts[Len(alerts)])

\* The alerts of the tick that go to the history, and the records the
\* dispatches of the tick have written.
SevereAlerts == SelectSeq(alerts, Severe)
TickRecords == SelectSeq(appended, LAMBDA r : r.timestamp >= now - cursor)

\* C14: the loop keeps no memory of earlier alerts: in each tick every
\* rule whose condition holds gets its execute call, whatever earlier ticks
\* did, and every critical or warning one its own history record, several
\* rules over one metric included.
C14_NoSuppression ==
    (pc = "sleep" \/ TickSlept) =>
        /\ Len(alerts) = Len(Triggered)
        /\ \A k \in 1..Len(alerts) :
              /\ alerts[k].name = Triggered[k].name
              /\ alerts[k].severity = Triggered[k].severity
              /\ tickLog[2 + k] = Call("execute", alerts[k])
        /\ Len(TickRecords) = Len(SevereAlerts)
        /\ \A k \in 1..Len(SevereAlerts) : RecordOf(TickRecords[k], SevereAlerts[k])
        /\ Len(Stored(historyFile)) >= Len(SevereAlerts)
        /\ SubSeq(Stored(historyFile),
                  Len(Stored(historyFile)) - Len(SevereAlerts) + 1,
                  Len(Stored(historyFile))) = TickRecords

\* C14 witness: the second tick in a row in which the warning and the
\* critical CPU rule both hold; each tick has recorded both.
C14_Witness ==
    /\ pc = "sleep"
    /\ iteration = 2
    /\ rules = DefaultRules
    /\ Len(TickRecords) = 2
    /\ Len(appended) = 4
    /\ TickRecords[1].name = N_cpu_high /\ TickRecords[2].name = N_cpu_critical
    /\ appended[1].name = N_cpu_high /\ appended[2].name = N_cpu_critical

(***************************************************************************)
(* Properties of the run modes and of the operator interrupt.              *)
(***************************************************************************)
Interrupted == raised = "KeyboardInterrupt"

\* C11: an operator interrupt, in continuous or single-shot mode and
\* wherever in the tick it arrives, ends in the clean shutdown and a normal
\* return of the monitoring function: it never escapes as an unhandled
\* exception and never leaves a history write half done.
C11_InterruptIsClean ==
    Interrupted => pc = "shutdown" /\ ~InTrace("write:partial")

\* The calls of one run of run_once that returned.
OnceLog == TickHead \o ExecuteCalls(Len(alerts)) \o <<Call("get_stats", NoAlert)>>

\* An upper bound on the statements run_once still has to run.
RemainingSteps ==
    CASE pc = "once_fetch" -> Len(rules) + 4
      [] pc = "once_check" -> Len(rules) + 3
      [] pc = "once_dispatch" -> Len(alerts) - cursor + 1
      [] pc = "once_display" -> 1
      [] OTHER -> 0

\* The guard of the OnceNext action that belongs to the current statement.
NextStatementCanRun ==
    /\ pc = "once_fetch" => StatsSet # {}
    /\ pc = "once_dispatch" => cursor < Len(alerts) /\ Environments # {}

\* A step of single-shot mode stays in run_once or ends it, and leaves
\* strictly fewer statements to run.
OnceStepsCountDown ==
    pc \in OncePcs =>
        /\ pc' \in OncePcs \cup {"once_returned", "crashed"}
        /\ RemainingSteps' < RemainingSteps

MonitorLeavesByInterruptOrException ==
    pc \in MonitorPcs =>
        /\ pc' \in MonitorPcs \cup {"shutdown", "crashed"}
        /\ pc' = "shutdown" => raised' = "KeyboardInterrupt"
        /\ pc' = "crashed" => raised' \notin {"none", "KeyboardInterrupt"}

====
